---- MODULE Spec2Model ----
(***************************************************************************)
(* Model of lapce-data/src/cli.rs: the clap value parser PathObjectParser  *)
(* that resolves one command-line argument into a PathObject, either a     *)
(* directory or a file with an optional LineCol position.                 *)
(*                                                                         *)
(* A path is a sequence of characters; a character is a one-token string.  *)
(* The filesystem is a function from the names that exist (or are denied)  *)
(* to the kind of the entry; std::fs::canonicalize, Path::is_file and      *)
(* Path::is_dir are modelled against it.                                   *)
(***************************************************************************)
EXTENDS Integers, Sequences, FiniteSets, TLC

VARIABLES fs, cwd, argv, value, path, result, probes, bases, cwdReads

vars == <<fs, cwd, argv, value, path, result, probes, bases, cwdReads>>

----------------------------------------------------------------------------
(* Characters *)

Colon == ":"
Sep == "/"
LineFeed == "\n"
\* A byte that is not valid UTF-8: OsStr::to_str answers None on it.
BadByte == "0xFF"
\* ARABIC-INDIC DIGIT THREE: general category Nd, not an ASCII digit.
ArabicThree == "U+0663"

AsciiDigits == {"0", "1", "2", "3", "4", "5", "6", "7", "8", "9"}

\* Mutant: the digit groups written `\w+`.
IsWordClass(c) == c \in AsciiDigits \cup {ArabicThree, "a"}

\* regex `\d` (Unicode aware: any decimal digit, category Nd).
IsDigitClass(c) == c \in AsciiDigits \cup {ArabicThree}

\* regex `.`: any character but the line feed.
IsDotClass(c) == c # LineFeed

\* char::to_digit(10) as used by usize::from_str
to_digit(c) ==
  CASE c = "0" -> 0 [] c = "1" -> 1 [] c = "2" -> 2 [] c = "3" -> 3
    [] c = "4" -> 4 [] c = "5" -> 5 [] c = "6" -> 6 [] c = "7" -> 7
    [] c = "8" -> 8 [] c = "9" -> 9 [] OTHER -> -1

----------------------------------------------------------------------------
(* usize and str::parse::<usize> *)

\* The width of usize.  The targets have 64 bits; the model keeps the
\* overflow check of the parse and scales the width down so that the
\* values stay inside TLC's integers.
UsizeBits == 4
UsizeMax == (2 ^ UsizeBits) - 1

RECURSIVE parse_digits(_, _, _)
\* The loop of from_str_radix: digit by digit, checked_mul then checked_add.
parse_digits(s, i, acc) ==
  IF i > Len(s) THEN [ok |-> TRUE, val |-> acc, err |-> ""]
  ELSE LET d == to_digit(s[i]) IN
       IF d < 0 THEN [ok |-> FALSE, val |-> 0, err |-> "InvalidDigit"]
       ELSE IF acc * 10 + d > UsizeMax
            THEN [ok |-> FALSE, val |-> 0, err |-> "PosOverflow"]
            ELSE parse_digits(s, i + 1, acc * 10 + d)

\* line.as_str().parse::<usize>()
parse_usize(s) ==
  IF s = <<>> THEN [ok |-> FALSE, val |-> 0, err |-> "Empty"]
  ELSE parse_digits(s, 1, 0)

----------------------------------------------------------------------------
(* Paths *)

\* Path::is_absolute (Unix)
is_absolute(p) == Len(p) > 0 /\ p[1] = Sep

\* Path::join / PathBuf::push
join(base, p) ==
  IF is_absolute(p) THEN p
  ELSE IF base = <<>> THEN p
  ELSE IF base[Len(base)] = Sep THEN base \o p
  ELSE base \o <<Sep>> \o p

\* Path::to_str: None unless the path is valid UTF-8.
to_str(p) ==
  IF \E i \in 1..Len(p) : p[i] = BadByte THEN [some |-> FALSE, str |-> <<>>]
  ELSE [some |-> TRUE, str |-> p]

----------------------------------------------------------------------------
(* The filesystem *)

\* "special": an entry that is neither a regular file nor a directory
\* (a fifo, a socket).  "denied": an entry whose path cannot be resolved
\* (permission denied on the way).
Kinds == {"file", "dir", "special", "denied"}
Absent == "absent"

\* The canonical form of every path lies under this prefix (the tree is
\* reached through a symbolic link), so a canonical path differs from the
\* path that was passed.
RealRoot == <<Sep, "r">>

Lookup(f, name) == IF name \in DOMAIN f THEN f[name] ELSE Absent

HasPrefix(p, q) == Len(p) >= Len(q) /\ SubSeq(p, 1, Len(q)) = q

\* The metadata of a path (a canonical one resolves back to its entry).
Stat(f, p) ==
  IF HasPrefix(p, RealRoot) THEN Lookup(f, SubSeq(p, Len(RealRoot) + 1, Len(p)))
  ELSE Lookup(f, p)

\* std::fs::canonicalize: a relative path is resolved against the current
\* directory of the process (d; <<>> when it cannot be determined).
canonicalize(p, f, d) ==
  LET abs == join(d, p)
      k   == Lookup(f, abs)
  IN  IF p = <<>> \/ ~is_absolute(abs)
        THEN [ok |-> FALSE, path |-> <<>>, err |-> "NotFound"]
      ELSE IF k = Absent THEN [ok |-> FALSE, path |-> <<>>, err |-> "NotFound"]
      ELSE IF k = "denied"
        THEN [ok |-> FALSE, path |-> <<>>, err |-> "PermissionDenied"]
      ELSE [ok |-> TRUE, path |-> RealRoot \o abs, err |-> ""]

is_file(f, p) == Stat(f, p) = "file"
is_dir(f, p) == Stat(f, p) = "dir"

----------------------------------------------------------------------------
(* Results: Result<PathObject, clap::Error> *)

None == <<>>
Some(x) == <<x>>
LineCol(l, c) == [line |-> l, column |-> c]

NoResult ==
  [tag |-> "none", path |-> <<>>, linecol |-> None, kind |-> "", error |-> "",
   arg |-> <<>>, texts |-> <<>>, causes |-> <<>>]

\* PathObject::File(PathBuf, Option<LineCol>)
File(p, lc) == [NoResult EXCEPT !.tag = "File", !.path = p, !.linecol = lc]

\* PathObject::Directory(PathBuf)
Directory(p) == [NoResult EXCEPT !.tag = "Directory", !.path = p]

\* A clap error: its kind and what its message is formatted from, in the
\* order of the format arguments (texts: the fragments of the argument;
\* causes: the ParseIntError or io::Error displayed).
Err(kind, variant, a, texts, causes) ==
  [NoResult EXCEPT !.tag = "Err", !.kind = kind, !.error = variant, !.arg = a,
                   !.texts = texts, !.causes = causes]

\* PathObjectParser::error.  e: [variant, texts, causes].
error(e, path_str) ==
  IF e.variant = "InvalidPath"
    THEN Err("InvalidValue", "InvalidPath", <<>>, <<>>, <<>>)
    ELSE Err("InvalidValue", e.variant, path_str, e.texts, e.causes)

ParserError(variant, texts, causes) ==
  [variant |-> variant, texts |-> texts, causes |-> causes]

----------------------------------------------------------------------------
(* The two suffix grammars *)

NoCaptures ==
  [matched |-> FALSE, path |-> <<>>, line |-> <<>>, column |-> <<>>,
   column_start |-> 0]

\* The matches of `(.+)` followed by `:`, nd groups `(\d+)` separated by `:`,
\* and `\z` in s: <<i, j, k>> with the path group s[i..j-1], colons at j and
\* k (j = k when nd = 1), and the last digit group running to the end.
Matches(s, nd) ==
  LET n == Len(s)
      Colons == {x \in 1..n : s[x] = Colon}
      Digits(a, b) == a <= b /\ \A x \in a..b : IsDigitClass(s[x])
      Dots(a, b) == a <= b /\ \A x \in a..b : IsDotClass(s[x])
      K == {k \in Colons : Digits(k + 1, n)}
      JK == IF nd = 1 THEN {<<k, k>> : k \in K}
            ELSE {jk \in Colons \X K : jk[1] < jk[2] /\ Digits(jk[1] + 1, jk[2] - 1)}
  IN  UNION {{<<i, jk[1], jk[2]>> : i \in {x \in 1..(jk[1] - 1) : Dots(x, jk[1] - 1)}}
             : jk \in JK}

\* Regex::captures: the leftmost match, each group greedy in turn.
Leftmost(M) ==
  LET i == CHOOSE x \in {m[1] : m \in M} : \A m \in M : x <= m[1]
      J == {m[2] : m \in {y \in M : y[1] = i}}
      j == CHOOSE x \in J : \A y \in J : x >= y
      K == {m[3] : m \in {y \in M : y[1] = i /\ y[2] = j}}
      k == CHOOSE x \in K : \A y \in K : x >= y
  IN  <<i, j, k>>

\* The groups of the match m (Captures::get(1..3), Match::as_str, Match::start).
Groups(s, nd, m) ==
  [matched |-> TRUE,
   path |-> SubSeq(s, m[1], m[2] - 1),
   line |-> IF nd = 2 THEN SubSeq(s, m[2] + 1, m[3] - 1) ELSE SubSeq(s, m[3] + 1, Len(s)),
   column |-> IF nd = 2 THEN SubSeq(s, m[3] + 1, Len(s)) ELSE <<>>,
   column_start |-> IF nd = 2 THEN m[3] + 1 ELSE 0]

CapturesOf(s, nd, M) == IF M = {} THEN NoCaptures ELSE Groups(s, nd, Leftmost(M))

\* REG_LINE_COLUMN: Regex::new(r"(.+):(\d+):(\d+)\z"), captures(s)
REG_LINE_COLUMN(s) == CapturesOf(s, 2, Matches(s, 2))

\* REG_LINE: Regex::new(r"(.+):(\d+)\z"), captures(s)
REG_LINE(s) == CapturesOf(s, 1, Matches(s, 1))

----------------------------------------------------------------------------
(* PathObjectParser::parse_path, stage by stage.  Each stage answers       *)
(* [returned, res, probes]: whether it returned from parse_path, the       *)
(* value it returned, and the paths it handed to canonicalize, in order.   *)
(* A stage is split where the code binds a value, and takes the value as a *)
(* parameter.                                                              *)

Return(res, probed) == [returned |-> TRUE, res |-> res, probes |-> probed]
Continue(probed) == [returned |-> FALSE, res |-> NoResult, probes |-> probed]

\* Mutant: the verbatim probe answers for directories only.
direct_result_dirs_only(p, f, c) ==
  IF c.ok /\ is_dir(f, c.path) THEN Return(Directory(c.path), <<p>>)
  ELSE Continue(<<p>>)

\* `if path_buf.is_file() { .. } else if path_buf.is_dir() { .. }` on the
\* verbatim path; c: what path.canonicalize() answered.
direct_result(p, f, c) ==
  IF c.ok /\ is_file(f, c.path) THEN Return(File(c.path, None), <<p>>)
  ELSE IF c.ok /\ is_dir(f, c.path) THEN Return(Directory(c.path), <<p>>)
  ELSE Continue(<<p>>)

\* The verbatim probe: `if let Ok(path_buf) = path.canonicalize() { .. }`
direct_probe(p, f, d) == direct_result(p, f, canonicalize(p, f, d))

\* Err(Self::error(ParserError::NotFileOrDirectory, path_str))
not_file_or_directory(path_str) ==
  error(ParserError("NotFileOrDirectory", <<>>, <<>>), path_str)

\* Mutant: the column of a line-only position left at 0.
line_resolved_column_zero(caps, line_num, c, path_str, f) ==
  IF ~c.ok THEN Return(not_file_or_directory(path_str), <<caps.path>>)
  ELSE IF is_file(f, c.path)
    THEN Return(File(c.path, Some(LineCol(line_num, 0))), <<caps.path>>)
  ELSE Return(error(ParserError("NotFile", <<caps.path>>, <<>>), path_str),
              <<caps.path>>)

\* "name:{line}", the line parsed; c: what canonicalize answered for the
\* captured path.  A failure falls out of the block.
line_resolved(caps, line_num, c, path_str, f) ==
  IF ~c.ok THEN Return(not_file_or_directory(path_str), <<caps.path>>)
  ELSE IF is_file(f, c.path)
    THEN Return(File(c.path, Some(LineCol(line_num, 1))), <<caps.path>>)
  ELSE Return(error(ParserError("NotFile", <<caps.path>>, <<>>), path_str),
              <<caps.path>>)

\* `match line.as_str().parse::<usize>()` of the REG_LINE block.
line_parsed(caps, line_num, path_str, f, d) ==
  IF ~line_num.ok
    THEN Return(error(ParserError("InvalidLine", <<caps.line>>, <<line_num.err>>),
                      path_str), <<>>)
  ELSE line_resolved(caps, line_num.val, canonicalize(caps.path, f, d), path_str, f)

\* `if let Some(captures) = REG_LINE.captures(path_str)` and the final
\* NotFileOrDirectory.
line_match(caps, path_str, f, d) ==
  IF ~caps.matched THEN Return(not_file_or_directory(path_str), <<>>)
  ELSE line_parsed(caps, parse_usize(caps.line), path_str, f, d)

\* "name:{line}": the REG_LINE block to the end of parse_path.
line_stage(path_str, f, d) == line_match(REG_LINE(path_str), path_str, f, d)

\* Mutant: the rebuilt file keeps the line group as its line.
may_be_resolved_line_group(caps, column_num, err, may_be_path, m, path_str, f, d) ==
  IF m.ok /\ is_file(f, m.path)
    THEN Return(File(m.path, Some(LineCol(parse_usize(caps.line).val, 1))),
                <<caps.path, may_be_path>>)
  ELSE Return(error(ParserError("Other", <<caps.path>>, <<err>>), path_str),
              <<caps.path, may_be_path>>)

\* Mutant: a failed reconstruction falls through to the REG_LINE block.
may_be_resolved_falls_through(caps, column_num, err, may_be_path, m, path_str, f, d) ==
  IF m.ok /\ is_file(f, m.path)
    THEN Return(File(m.path, Some(LineCol(column_num, 1))),
                <<caps.path, may_be_path>>)
  ELSE Return(line_stage(path_str, f, d).res,
              <<caps.path, may_be_path>> \o line_stage(path_str, f, d).probes)

\* The Err(err) arm, after the captured path failed to canonicalize; m:
\* what canonicalize answered for may_be_path.
may_be_resolved(caps, column_num, err, may_be_path, m, path_str, f, d) ==
  IF m.ok /\ is_file(f, m.path)
    THEN Return(File(m.path, Some(LineCol(column_num, 1))),
                <<caps.path, may_be_path>>)
  ELSE Return(error(ParserError("Other", <<caps.path>>, <<err>>), path_str),
              <<caps.path, may_be_path>>)

\* `let may_be_path = &path_str[..column.start() - 1]` and its probe.
may_be_file(caps, column_num, err, may_be_path, path_str, f, d) ==
  may_be_resolved(caps, column_num, err, may_be_path,
                  canonicalize(may_be_path, f, d), path_str, f, d)

\* Mutant: line and column exchanged in the position.
line_column_resolved_swapped(caps, line_num, column_num, c, path_str, f, d) ==
  IF c.ok
    THEN IF is_file(f, c.path)
           THEN Return(File(c.path, Some(LineCol(column_num, line_num))),
                       <<caps.path>>)
           ELSE Return(error(ParserError("NotFile", <<caps.path>>, <<>>), path_str),
                       <<caps.path>>)
  ELSE may_be_file(caps, column_num, c.err,
                   SubSeq(path_str, 1, caps.column_start - 2), path_str, f, d)

\* Mutant: a captured path that is not a regular file goes on to the
\* reconstruction instead of ending in NotFile.
line_column_resolved_file_only(caps, line_num, column_num, c, path_str, f, d) ==
  IF c.ok /\ is_file(f, c.path)
    THEN Return(File(c.path, Some(LineCol(line_num, column_num))), <<caps.path>>)
  ELSE may_be_file(caps, column_num, "NotFound",
                   SubSeq(path_str, 1, caps.column_start - 2), path_str, f, d)

\* `match PathBuf::from(path.as_str()).canonicalize()`; c: its answer.
line_column_resolved(caps, line_num, column_num, c, path_str, f, d) ==
  IF c.ok
    THEN IF is_file(f, c.path)
           THEN Return(File(c.path, Some(LineCol(line_num, column_num))),
                       <<caps.path>>)
           ELSE Return(error(ParserError("NotFile", <<caps.path>>, <<>>), path_str),
                       <<caps.path>>)
  ELSE may_be_file(caps, column_num, c.err,
                   SubSeq(path_str, 1, caps.column_start - 2), path_str, f, d)

\* Mutant: the longer name `P:L` is probed before the captured path.
line_column_numbers_ok_longest_first(caps, line_num, column_num, path_str, f, d) ==
  IF canonicalize(SubSeq(path_str, 1, caps.column_start - 2), f, d).ok
     /\ is_file(f, canonicalize(SubSeq(path_str, 1, caps.column_start - 2), f, d).path)
    THEN Return(File(canonicalize(SubSeq(path_str, 1, caps.column_start - 2), f, d).path,
                     Some(LineCol(column_num, 1))),
                <<SubSeq(path_str, 1, caps.column_start - 2)>>)
  ELSE line_column_resolved(caps, line_num, column_num, canonicalize(caps.path, f, d),
                            path_str, f, d)

\* The (Ok(line_num), Ok(column_num)) arm of the REG_LINE_COLUMN block.
line_column_numbers_ok(caps, line_num, column_num, path_str, f, d) ==
  line_column_resolved(caps, line_num, column_num, canonicalize(caps.path, f, d),
                       path_str, f, d)

\* Mutant: the (Ok, Err) and (Err, Ok) arms exchanged.
line_column_parsed_arms_swapped(caps, line_num, column_num, path_str, f, d) ==
  IF line_num.ok /\ column_num.ok
    THEN line_column_numbers_ok(caps, line_num.val, column_num.val, path_str, f, d)
  ELSE IF column_num.ok
    THEN Return(error(ParserError("InvalidColumn", <<caps.column>>,
                                  <<line_num.err>>), path_str), <<>>)
  ELSE IF line_num.ok
    THEN Return(error(ParserError("InvalidLine", <<caps.line>>,
                                  <<column_num.err>>), path_str), <<>>)
  ELSE Return(error(ParserError("InvalidLineColumn", <<caps.line, caps.column>>,
                                <<line_num.err, column_num.err>>), path_str), <<>>)

\* `match (line_num, column_num)`.
line_column_parsed(caps, line_num, column_num, path_str, f, d) ==
  IF line_num.ok /\ column_num.ok
    THEN line_column_numbers_ok(caps, line_num.val, column_num.val, path_str, f, d)
  ELSE IF line_num.ok
    THEN Return(error(ParserError("InvalidColumn", <<caps.column>>,
                                  <<column_num.err>>), path_str), <<>>)
  ELSE IF column_num.ok
    THEN Return(error(ParserError("InvalidLine", <<caps.line>>,
                                  <<line_num.err>>), path_str), <<>>)
  ELSE Return(error(ParserError("InvalidLineColumn", <<caps.line, caps.column>>,
                                <<line_num.err, column_num.err>>), path_str), <<>>)

\* `if let Some(captures) = REG_LINE_COLUMN.captures(path_str)`.
line_column_match(caps, path_str, f, d) ==
  IF ~caps.matched THEN Continue(<<>>)
  ELSE line_column_parsed(caps, parse_usize(caps.line), parse_usize(caps.column),
                          path_str, f, d)

\* "name:{line}:{column}": the REG_LINE_COLUMN block.
line_column_stage(path_str, f, d) ==
  line_column_match(REG_LINE_COLUMN(path_str), path_str, f, d)

\* The REG_LINE block ends parse_path; stage: what it answered.
with_line(probed, stage) == Return(stage.res, probed \o stage.probes)

\* parse_path after the verbatim probe, s being path.to_str(); stage: what
\* the REG_LINE_COLUMN block answered.
after_line_column(path_str, probed, stage, f, d) ==
  IF stage.returned THEN Return(stage.res, probed \o stage.probes)
  ELSE with_line(probed \o stage.probes, line_stage(path_str, f, d))

after_to_str(s, probed, f, d) ==
  IF ~s.some THEN Return(error(ParserError("InvalidPath", <<>>, <<>>), <<>>), probed)
  ELSE after_line_column(s.str, probed, line_column_stage(s.str, f, d), f, d)

after_direct(p, direct, f, d) ==
  IF direct.returned THEN direct ELSE after_to_str(to_str(p), direct.probes, f, d)

\* PathObjectParser::parse_path
parse_path(p, f, d) == after_direct(p, direct_probe(p, f, d), f, d)

\* The call of parse_path from parse_ref: what clap gets back, the path
\* handed to parse_path and the base it was joined on (None: not joined).
parsed(p, r, base) == [res |-> r.res, probes |-> r.probes, path |-> p, base |-> base]

\* The else branch of parse_ref: `let BASE = std::env::current_dir()
\* .unwrap_or_default(); let path = BASE.join(path);`.  BASE: what
\* current_dir() answers at this call (<<>>: an error, defaulted).
parse_relative(v, BASE, f, d) ==
  parsed(join(BASE, v), parse_path(join(BASE, v), f, d), Some(BASE))

\* TypedValueParser::parse_ref for PathObjectParser; d: the current
\* directory of the process at the call.
parse_ref(v, f, d) ==
  IF v = <<>>
    THEN [res |-> Err("EmptyValue", "InvalidArg", <<>>, <<>>, <<>>),
          probes |-> <<>>, path |-> <<>>, base |-> None]
  ELSE IF is_absolute(v) THEN parsed(v, parse_path(v, f, d), None)
  ELSE parse_relative(v, d, f, d)

----------------------------------------------------------------------------
(* Bounds and the inputs drawn *)

\* The number of colon separated groups of an argument.
MaxSegs == 3
\* The number of parse_ref calls of one process in SpecCwd.
MaxCalls == 2

\* The groups an argument is made of: a name, two numbers that fit usize,
\* one that overflows it (UsizeMax + 1), a non-ASCII digit, a line feed and
\* a byte that is not UTF-8.
Segs ==
  {<<"a">>, <<"2">>, <<"1", "3">>, <<"1", "6">>, <<ArabicThree>>, <<LineFeed>>,
   <<BadByte>>}

RECURSIVE JoinSegs(_)
JoinSegs(ss) ==
  IF Len(ss) = 1 THEN ss[1]
  ELSE JoinSegs(SubSeq(ss, 1, Len(ss) - 1)) \o <<Colon>> \o ss[Len(ss)]

Values == {<<>>} \cup UNION {{JoinSegs(ss) : ss \in [1..k -> Segs]} : k \in 1..MaxSegs}

WorkDir == <<Sep, "w">>
OtherDir == <<Sep, "v">>

\* What is left of p when its last colon group is cut off (p when it has none).
CutLast(p) ==
  LET C == {i \in 1..Len(p) : p[i] = Colon} IN
  IF C = {} THEN p
  ELSE SubSeq(p, 1, (CHOOSE i \in C : \A j \in C : i >= j) - 1)

\* The names parse_path can probe for the path p: p itself and p with its
\* last one and two colon groups cut off.
OnPath(p) == {p, CutLast(p), CutLast(CutLast(p))}

\* Every filesystem whose entries lie on the path p.
FileSystems(p) == [OnPath(p) -> Kinds \cup {Absent}]

----------------------------------------------------------------------------
(* The state machine *)

\* One process, one argument: clap hands it to parse_ref.
Init ==
  /\ cwd = WorkDir
  /\ \E v \in Values :
       /\ argv = <<v>>
       /\ fs \in FileSystems(join(WorkDir, v))
  /\ value = <<>>
  /\ path = <<>>
  /\ result = NoResult
  /\ probes = <<>>
  /\ bases = <<>>
  /\ cwdReads = 0

\* What one call leaves behind.
Resolved(v, r) ==
  /\ value' = v
  /\ path' = r.path
  /\ result' = r.res
  /\ probes' = r.probes
  /\ bases' = bases \o r.base
  /\ cwdReads' = cwdReads + Len(r.base)

\* clap calls parse_ref on the next argument of the command line.
ParseRef ==
  /\ argv # <<>>
  /\ Resolved(Head(argv), parse_ref(Head(argv), fs, cwd))
  /\ argv' = Tail(argv)
  /\ UNCHANGED <<fs, cwd>>

Next == ParseRef

Spec == Init /\ [][Next]_vars

----------------------------------------------------------------------------
(* One process resolving several arguments while its current directory     *)
(* changes between the calls.                                              *)

CwdValues ==
  {<<>>, <<"a">>, <<"a", Colon, "2">>, WorkDir \o <<Sep, "a">>,
   WorkDir \o <<Sep, "a", Colon, "2">>}

CwdNames == {join(d, <<"a">>) : d \in {WorkDir, OtherDir}}

InitCwd ==
  /\ cwd = WorkDir
  /\ argv \in UNION {[1..k -> CwdValues] : k \in 1..MaxCalls}
  /\ fs \in [CwdNames -> {"file", "dir", Absent}]
  /\ value = <<>>
  /\ path = <<>>
  /\ result = NoResult
  /\ probes = <<>>
  /\ bases = <<>>
  /\ cwdReads = 0

\* The process changes its current directory (std::env::set_current_dir),
\* or the directory is removed under it (d = <<>>: current_dir() fails).
Chdir(d) ==
  /\ argv # <<>>
  /\ d # cwd
  /\ cwd' = d
  /\ UNCHANGED <<fs, argv, value, path, result, probes, bases, cwdReads>>

NextCwd ==
  \/ ParseRef
  \/ \E d \in {WorkDir, OtherDir, <<>>} : Chdir(d)

SpecCwd == InitCwd /\ [][NextCwd]_vars

----------------------------------------------------------------------------
(* The vocabulary of the claims.  An argument is read the way the claims   *)
(* write it, `P:L:C` or `P:L`, by cutting at its last colons; nothing here *)
(* uses the resolver.                                                      *)

\* parse_path was called and has answered.
Called == result.tag # "none" /\ path # <<>>

HasColon(p) == \E i \in 1..Len(p) : p[i] = Colon
LastColon(p) == CHOOSE i \in 1..Len(p) : p[i] = Colon /\ \A j \in (i + 1)..Len(p) : p[j] # Colon
Before(p) == SubSeq(p, 1, LastColon(p) - 1)
After(p) == SubSeq(p, LastColon(p) + 1, Len(p))

\* path = ArgPL:ArgC = ArgP:ArgL:ArgC
ShapePL == HasColon(path)
ShapePLC == HasColon(path) /\ HasColon(Before(path))
ArgPL == Before(path)
ArgC == After(path)
ArgP == Before(ArgPL)
ArgL == After(ArgPL)

DecimalDigits == AsciiDigits \cup {ArabicThree}
AllAsciiDigits(s) == s # <<>> /\ \A i \in 1..Len(s) : s[i] \in AsciiDigits
AllDecimalDigits(s) == s # <<>> /\ \A i \in 1..Len(s) : s[i] \in DecimalDigits

RECURSIVE Decimal(_)
Decimal(s) ==
  IF s = <<>> THEN 0
  ELSE 10 * Decimal(SubSeq(s, 1, Len(s) - 1))
       + (CHOOSE n \in 0..9 : ToString(n) = s[Len(s)])

\* s parses as an unsigned integer / is a number too large for one.
IsNumber(s) == AllAsciiDigits(s) /\ Decimal(s) <= UsizeMax
Overflows(s) == AllAsciiDigits(s) /\ Decimal(s) > UsizeMax

Exists(n) == Lookup(fs, n) # Absent
IsRegularFile(n) == Lookup(fs, n) = "file"
\* n resolves: it exists and every directory on the way can be searched.
Resolves(n) == Lookup(fs, join(cwd, n)) \in {"file", "dir", "special"}
Canonical(n) == RealRoot \o n

\* Valid UTF-8 and no line feed.
Plain(p) == \A i \in 1..Len(p) : p[i] \notin {LineFeed, BadByte}

FileAt(n, l, c) == File(Canonical(n), Some(LineCol(l, c)))
ErrorOf(variant, texts, causes) == Err("InvalidValue", variant, path, texts, causes)

----------------------------------------------------------------------------
(* The claims *)

\* C1: whenever the normalized argument, taken verbatim, names a regular
\* file the result is File(canonical path, no position), and whenever it
\* names a directory the result is Directory(canonical path), whatever the
\* shape of the string and whatever shorter prefixes exist.
C1_VerbatimPrecedence ==
  Called =>
    /\ IsRegularFile(path) => result = File(Canonical(path), None)
    /\ Lookup(fs, path) = "dir" => result = Directory(Canonical(path))

\* The verbatim file has the shape P:L:C, and P and P:L are files too.
C1_Witness ==
  /\ Called /\ ShapePLC /\ IsNumber(ArgL) /\ IsNumber(ArgC)
  /\ IsRegularFile(path) /\ IsRegularFile(ArgPL) /\ IsRegularFile(ArgP)
  /\ result = File(Canonical(path), None)

\* C2 as stated: for every regular file P and numbers L, C, with no entry
\* named P:L:C, the argument P:L:C resolves to File(P, {L, C}).
C2_Original ==
  (Called /\ ShapePLC /\ IsNumber(ArgL) /\ IsNumber(ArgC)
     /\ IsRegularFile(ArgP) /\ ~Exists(path))
    => result = FileAt(ArgP, Decimal(ArgL), Decimal(ArgC))

\* C2 as amended: the same, for an argument that is valid UTF-8 and holds
\* no line feed.
C2_LineColumnParse ==
  (Called /\ Plain(path) /\ ShapePLC /\ IsNumber(ArgL) /\ IsNumber(ArgC)
     /\ IsRegularFile(ArgP) /\ ~Exists(path))
    => result = FileAt(ArgP, Decimal(ArgL), Decimal(ArgC))

C2_Witness ==
  /\ Called /\ Plain(path) /\ ShapePLC /\ IsNumber(ArgL) /\ IsNumber(ArgC)
  /\ IsRegularFile(ArgP) /\ ~Exists(path)
  /\ Decimal(ArgL) = 13 /\ Decimal(ArgC) = 2
  /\ result = FileAt(ArgP, 13, 2)

\* C3 as stated, on arguments that are valid UTF-8 and hold no line feed:
\* for every regular file P, whatever its name, and number L, with no entry
\* named P:L, the argument P:L resolves to File(P, {L, 1}).
C3_Original ==
  (Called /\ Plain(path) /\ ShapePL /\ IsNumber(ArgC)
     /\ IsRegularFile(ArgPL) /\ ~Exists(path))
    => result = FileAt(ArgPL, Decimal(ArgC), 1)

\* P = A:D with D a run of decimal digits.
EndsInColonDigits(p) == HasColon(p) /\ AllDecimalDigits(After(p))

\* C3 as amended: the same when P does not itself end in a colon followed
\* by decimal digits; when P is A:D with D decimal digits, only if D
\* parses as an unsigned integer and A fails to canonicalize.  Otherwise A
\* is resolved first: File(A, {D, L}) when A is a regular file.
C3_LineOnlyParse ==
  (Called /\ Plain(path) /\ ShapePL /\ IsNumber(ArgC)
     /\ IsRegularFile(ArgPL) /\ ~Exists(path))
    => /\ ~EndsInColonDigits(ArgPL) => result = FileAt(ArgPL, Decimal(ArgC), 1)
       /\ (EndsInColonDigits(ArgPL) /\ IsNumber(ArgL) /\ ~Resolves(ArgP))
            => result = FileAt(ArgPL, Decimal(ArgC), 1)
       /\ (EndsInColonDigits(ArgPL) /\ IsNumber(ArgL) /\ IsRegularFile(ArgP))
            => result = FileAt(ArgP, Decimal(ArgL), Decimal(ArgC))

\* A file without a colon in its name, resolved at the line given, column 1.
C3_Witness ==
  /\ Called /\ Plain(path) /\ ShapePL /\ ~HasColon(ArgPL)
  /\ IsRegularFile(ArgPL) /\ ~Exists(path) /\ IsNumber(ArgC) /\ Decimal(ArgC) = 13
  /\ result = FileAt(ArgPL, 13, 1)

\* X holds a character that is not a decimal digit.
NotDigits(x) == x # <<>> /\ ~AllDecimalDigits(x)

\* C4 as stated, in its case "B is all digits": for a regular file named
\* A:B and a number N, with neither A:B:N nor A on disk, the argument A:B:N
\* resolves to File(A:B, {N, 1}).
C4_Original ==
  (Called /\ Plain(path) /\ ShapePLC /\ AllAsciiDigits(ArgL) /\ IsNumber(ArgC)
     /\ IsRegularFile(ArgPL) /\ ~Exists(path) /\ ~Exists(ArgP))
    => result = FileAt(ArgPL, Decimal(ArgC), 1)

\* C4 as amended: the same for a valid UTF-8 argument without line feed
\* when B (which holds no colon) either holds a character that is not a
\* decimal digit or parses as an unsigned integer itself.
C4_AmbiguityReconstruction ==
  (Called /\ Plain(path) /\ ShapePLC /\ IsNumber(ArgC)
     /\ (NotDigits(ArgL) \/ IsNumber(ArgL))
     /\ IsRegularFile(ArgPL) /\ ~Exists(path) /\ ~Exists(ArgP))
    => result = FileAt(ArgPL, Decimal(ArgC), 1)

\* B is a number: the G1 match on A fails and A:B is rebuilt.
C4_Witness ==
  /\ Called /\ Plain(path) /\ ShapePLC /\ IsNumber(ArgC) /\ IsNumber(ArgL)
  /\ Decimal(ArgL) # Decimal(ArgC)
  /\ IsRegularFile(ArgPL) /\ ~Exists(path) /\ ~Exists(ArgP)
  /\ result = FileAt(ArgPL, Decimal(ArgC), 1)
  /\ probes = <<path, ArgP, ArgPL>>

\* The grammar the resolver resolves under: REG_LINE_COLUMN when it
\* matches, REG_LINE otherwise (the grammars run on path.to_str()).
G1 == REG_LINE_COLUMN(path)
G2 == REG_LINE(path)

C7_Original ==
  (Called /\ Plain(path) /\ ShapePLC /\ NotDigits(ArgL) /\ IsNumber(ArgC)
     /\ ~Exists(path) /\ ~Exists(ArgPL) /\ ~Exists(ArgP))
    => result.error = "InvalidLine" /\ result.texts = <<ArgL>>

\* C7 as amended: it ends in the NotFileOrDirectory error carrying the
\* argument (X holding no colon); InvalidLine is not produced.
C7_InvalidNumerics ==
  (Called /\ Plain(path) /\ ShapePLC /\ NotDigits(ArgL) /\ IsNumber(ArgC)
     /\ ~Exists(path) /\ ~Exists(ArgPL) /\ ~Exists(ArgP))
    => result = ErrorOf("NotFileOrDirectory", <<>>, <<>>)

C7_Witness ==
  /\ Called /\ Plain(path) /\ ShapePLC /\ ArgL = <<"a">> /\ IsNumber(ArgC)
  /\ ~Exists(path) /\ ~Exists(ArgPL) /\ ~Exists(ArgP)
  /\ result.error = "NotFileOrDirectory" /\ result.arg = path
  /\ probes = <<path, ArgPL>>

\* C8 as stated, on arguments that are valid UTF-8 and hold no line feed:
\* of the candidates file P:L:C, file P:L at line C and file P at L:C, the
\* one with the longest name that is a regular file is returned; a shorter
\* one only when no longer one exists.
C8_Original ==
  (Called /\ Plain(path) /\ ShapePLC /\ IsNumber(ArgL) /\ IsNumber(ArgC))
    => /\ IsRegularFile(path) => result = File(Canonical(path), None)
       /\ (~Exists(path) /\ IsRegularFile(ArgPL))
            => result = FileAt(ArgPL, Decimal(ArgC), 1)
       /\ (~Exists(path) /\ ~Exists(ArgPL) /\ IsRegularFile(ArgP))
            => result = FileAt(ArgP, Decimal(ArgL), Decimal(ArgC))

\* P:L:C is neither a regular file nor a directory.
NotVerbatim == Lookup(fs, path) \notin {"file", "dir"}

\* C8 as amended: the candidates are tried in the order P:L:C, then P at
\* L:C, then P:L at line C.  File P:L:C wins whenever it exists; otherwise
\* file P is returned whenever it is a regular file, also when P:L is one;
\* file P:L is returned only when P fails to canonicalize.
C8_CandidateOrder ==
  (Called /\ Plain(path) /\ ShapePLC /\ IsNumber(ArgL) /\ IsNumber(ArgC))
    => /\ IsRegularFile(path) => result = File(Canonical(path), None)
       /\ (NotVerbatim /\ IsRegularFile(ArgP))
            => result = FileAt(ArgP, Decimal(ArgL), Decimal(ArgC))
       /\ (NotVerbatim /\ ~Resolves(ArgP) /\ IsRegularFile(ArgPL))
            => result = FileAt(ArgPL, Decimal(ArgC), 1)
       /\ (result.tag = "File" /\ result.path = Canonical(ArgPL)) => ~Resolves(ArgP)

\* P and P:L are both regular files, P:L:C is not on disk: P is returned.
C8_Witness ==
  /\ Called /\ Plain(path) /\ ShapePLC /\ IsNumber(ArgL) /\ IsNumber(ArgC)
  /\ Decimal(ArgL) # Decimal(ArgC)
  /\ ~Exists(path) /\ IsRegularFile(ArgPL) /\ IsRegularFile(ArgP)
  /\ result = FileAt(ArgP, Decimal(ArgL), Decimal(ArgC))

\* C9: the verbatim string does not exist and a grammar matches.  Under
\* REG_LINE_COLUMN an overflowing line gives InvalidLine with the line
\* text, an overflowing column InvalidColumn with the column text, both
\* InvalidLineColumn with both texts; under REG_LINE alone an overflowing
\* line gives InvalidLine.  Nothing but the verbatim string was probed.
C9_NumericFailureTerminal ==
  (Called /\ to_str(path).some /\ ~Exists(path))
    => /\ (G1.matched /\ Overflows(G1.line) /\ IsNumber(G1.column))
            => /\ result = ErrorOf("InvalidLine", <<G1.line>>, <<"PosOverflow">>)
               /\ probes = <<path>>
       /\ (G1.matched /\ IsNumber(G1.line) /\ Overflows(G1.column))
            => /\ result = ErrorOf("InvalidColumn", <<G1.column>>, <<"PosOverflow">>)
               /\ probes = <<path>>
       /\ (G1.matched /\ Overflows(G1.line) /\ Overflows(G1.column))
            => /\ result = ErrorOf("InvalidLineColumn", <<G1.line, G1.column>>,
                                   <<"PosOverflow", "PosOverflow">>)
               /\ probes = <<path>>
       /\ (~G1.matched /\ G2.matched /\ Overflows(G2.line))
            => /\ result = ErrorOf("InvalidLine", <<G2.line>>, <<"PosOverflow">>)
               /\ probes = <<path>>

\* Only the column overflows, while P and P:L are regular files.
C9_Witness ==
  /\ Called /\ Plain(path) /\ ShapePLC /\ IsNumber(ArgL) /\ Overflows(ArgC)
  /\ ~Exists(path) /\ IsRegularFile(ArgPL) /\ IsRegularFile(ArgP)
  /\ result.error = "InvalidColumn" /\ result.texts = <<ArgC>>
  /\ probes = <<path>>

\* C10: over the calls of one process every relative argument is joined
\* onto the same working directory, the one first obtained, whatever the
\* current directory has become since.
C10_WorkingDirectoryFixed ==
  \A i \in 1..Len(bases) : bases[i] = bases[1]

====
